---- MODULE Spec2Model ----
(***************************************************************************)
(* Model of controller.go: the Blinkt! Kubernetes controller.              *)
(*                                                                         *)
(* ControllerObj keeps an ordered resourceList guarded by resourceLock.    *)
(* The informer's three handlers (AddFunc, UpdateFunc, DeleteFunc) lock,   *)
(* mutate the list and call updateBlinkt, which walks the list, writes the *)
(* eight pixels and commits the frame with Show.                           *)
(*                                                                         *)
(* Indices are the code's: i counts from 0, so the record at index i is    *)
(* resourceList[i + 1] here.                                               *)
(***************************************************************************)
EXTENDS Integers, Sequences, FiniteSets

VARIABLES
    resourceList,   \* o.resourceList: sequence of resource{key, color, state}
    resourceLock,   \* o.resourceLock: NoProc when free, else the holder
    pc,             \* per goroutine: position in its handler
    handler,        \* per goroutine: which handler func it is running
    key,            \* per goroutine: local key  (lines 76, 86, 100)
    color,          \* per goroutine: local color (lines 77, 87)
    i,              \* per goroutine: local i of updateBlinkt
    leds,           \* the display's pixel buffer, written by Set
    frame,          \* what the display shows, written by Show
    ops,            \* display calls issued since the running handler began
    pre,            \* resourceList when the running handler took the lock
    preFrame,       \* frame when the running handler took the lock
    mainpc          \* Watch/main goroutine: watching, stopping, returned, exited

vars == <<resourceList, resourceLock, pc, handler, key, color, i,
          leds, frame, ops, pre, preFrame, mainpc>>

----------------------------------------------------------------------------
(* Constants of the program *)

added == 0
updated == 1
deleted == 2
unchanged == 3

NumLeds == 8

Off == "off"
Red == "red"
Blue == "blue"

(* The brightness NewController was given (any non-zero level). *)
brightness == "configured"

(* Bounds of the model *)

MaxLen == 3
CapLen == 9

Procs == {"h1", "h2"}
NoProc == "none"
Main == "main"

Keys == {"a", "b"}
CapKeys == {"f1", "x"}
Colors == {Red, Blue}
NoKey == "nokey"

Handlers == {"AddFunc", "UpdateFunc", "DeleteFunc"}

----------------------------------------------------------------------------
(* Helpers *)

Resource(k, c, s) == [key |-> k, color |-> c, state |-> s]

Pixel(c, b) == [color |-> c, brightness |-> b]

Leds == 0 .. (NumLeds - 1)

(* blinkt.Set(n, c, b): writes one pixel of the buffer *)
Set(l, n, c, b) == [l EXCEPT ![n] = Pixel(c, b)]

(* the cycles every Flash call of updateBlinkt asks for *)
FlashTimes == 2

Op(name, n, c, b, who) ==
    [op |-> name, led |-> n, color |-> c, brightness |-> b,
     times |-> IF name = "Flash" THEN FlashTimes ELSE 0,
     locked |-> (resourceLock = who)]

(* getResource: index (from 0) of the first record with the key, -1 for nil *)
getResource(list, k) ==
    IF \E n \in 1 .. Len(list) : list[n].key = k
    THEN (CHOOSE n \in 1 .. Len(list) :
              /\ list[n].key = k
              /\ \A m \in 1 .. (n - 1) : list[m].key # k) - 1
    ELSE -1

(* append(list[:n], list[n+1:]...) with n counted from 0 *)
RemoveAt(list, n) ==
    [m \in 1 .. (Len(list) - 1) |-> IF m <= n THEN list[m] ELSE list[m + 1]]

(* blinkt.Flash(n, c, b, 2, 50ms) pulses pixel n.  What it leaves in the  *)
(* buffer of that pixel, and whether it pushes the buffer to the display  *)
(* while pulsing, is the driver's business: every outcome is allowed.     *)
FlashResidue(l, n, c) == {l, Set(l, n, c, brightness), Set(l, n, Off, 0)}

FlashShows(f, l) == {f, l}

----------------------------------------------------------------------------
(* Initial states *)

AllOff == [n \in Leds |-> Pixel(Off, 0)]

(* The frame a finished render pass leaves for a list of steady records *)
FrameOf(list) ==
    [n \in Leds |-> IF n < Len(list)
                    THEN Pixel(list[n + 1].color, brightness)
                    ELSE Pixel(Off, 0)]

Idle ==
    /\ resourceLock = NoProc
    /\ pc = [p \in Procs |-> "idle"]
    /\ handler = [p \in Procs |-> "none"]
    /\ key = [p \in Procs |-> NoKey]
    /\ color = [p \in Procs |-> Off]
    /\ i = [p \in Procs |-> 0]
    /\ ops = << >>
    /\ pre = << >>
    /\ preFrame = AllOff
    /\ mainpc = "watching"

(* Seven resources added earlier, one after the other, all rendered *)
Base ==
    << Resource("f1", Red, unchanged), Resource("f2", Blue, unchanged),
       Resource("f3", Red, unchanged), Resource("f4", Blue, unchanged),
       Resource("f5", Red, unchanged), Resource("f6", Blue, unchanged),
       Resource("f7", Red, unchanged) >>

(* NewController: an empty list, a free lock, a dark display *)
Init ==
    /\ resourceList = << >>
    /\ leds = AllOff
    /\ frame = AllOff
    /\ Idle

----------------------------------------------------------------------------
(* The informer delivers an event: the handler func is entered and is about *)
(* to Lock.  ML bounds the length the list may reach.                       *)

(* A panic that leaves a handler ends the process: nothing runs after it *)
Alive == \A q \in Procs : pc[q] # "crashed"

PendingAdds == {q \in Procs : handler[q] = "AddFunc" /\ pc[q] \in {"lock", "body"}}

Deliver(p, h, ML) ==
    /\ Alive
    /\ mainpc = "watching"
    /\ pc[p] = "idle"
    /\ h = "AddFunc" => Len(resourceList) + Cardinality(PendingAdds) < ML
    /\ pc' = [pc EXCEPT ![p] = "lock"]
    /\ handler' = [handler EXCEPT ![p] = h]
    /\ UNCHANGED <<resourceList, resourceLock, key, color, i, leds, frame,
                   ops, pre, preFrame, mainpc>>

(* Mutant: Lock does not wait for the holder *)
LockNoWait(p) ==
    /\ Alive
    /\ pc[p] = "lock"
    /\ resourceLock' = p
    /\ pc' = [pc EXCEPT ![p] = "body"]
    /\ ops' = << >>
    /\ pre' = resourceList
    /\ preFrame' = frame
    /\ UNCHANGED <<resourceList, handler, key, color, i, leds, frame, mainpc>>

(* o.resourceLock.Lock() *)
Lock(p) ==
    /\ Alive
    /\ pc[p] = "lock"
    /\ resourceLock = NoProc
    /\ resourceLock' = p
    /\ pc' = [pc EXCEPT ![p] = "body"]
    /\ ops' = << >>
    /\ pre' = resourceList
    /\ preFrame' = frame
    /\ UNCHANGED <<resourceList, handler, key, color, i, leds, frame, mainpc>>

(* keyFunc panics on an object it cannot derive a key from *)
keyFuncPanics(k) == k = NoKey

Panic(p, k) ==
    /\ pc' = [pc EXCEPT ![p] = "panic"]
    /\ key' = [key EXCEPT ![p] = k]
    /\ UNCHANGED <<resourceList, resourceLock, handler, color, i, leds, frame,
                   ops, pre, preFrame, mainpc>>

(* Entering updateBlinkt: i := 0 *)
StartRender(p, k, c, list) ==
    /\ resourceList' = list
    /\ key' = [key EXCEPT ![p] = k]
    /\ color' = [color EXCEPT ![p] = c]
    /\ i' = [i EXCEPT ![p] = 0]
    /\ pc' = [pc EXCEPT ![p] = "walk"]
    /\ UNCHANGED <<resourceLock, handler, leds, frame, ops, pre, preFrame, mainpc>>

(* Mutant: the new record is put in front of the list *)
AddFuncInFront(p, k, c) ==
    /\ Alive
    /\ pc[p] = "body" /\ handler[p] = "AddFunc"
    /\ IF keyFuncPanics(k)
       THEN Panic(p, k)
       ELSE StartRender(p, k, c, << Resource(k, c, added) >> \o resourceList)

(* AddFunc, after Lock: key, color, append, updateBlinkt *)
AddFunc(p, k, c) ==
    /\ Alive
    /\ pc[p] = "body" /\ handler[p] = "AddFunc"
    /\ IF keyFuncPanics(k)
       THEN Panic(p, k)
       ELSE StartRender(p, k, c, Append(resourceList, Resource(k, c, added)))

(* Mutant: no early return when the color is the stored one *)
UpdateFuncAlwaysRenders(p, k, c) ==
    /\ Alive
    /\ pc[p] = "body" /\ handler[p] = "UpdateFunc"
    /\ LET r == getResource(resourceList, k) IN
       IF keyFuncPanics(k) \/ r = -1
       THEN Panic(p, k)
       ELSE StartRender(p, k, c,
                [resourceList EXCEPT ![r + 1].color = c,
                                     ![r + 1].state = updated])

(* Mutant: the changed record is taken out and appended again *)
UpdateFuncReappends(p, k, c) ==
    /\ Alive
    /\ pc[p] = "body" /\ handler[p] = "UpdateFunc"
    /\ LET r == getResource(resourceList, k) IN
       IF keyFuncPanics(k) \/ r = -1
       THEN Panic(p, k)
       ELSE IF c = resourceList[r + 1].color
       THEN /\ pc' = [pc EXCEPT ![p] = "ret"]
            /\ key' = [key EXCEPT ![p] = k]
            /\ color' = [color EXCEPT ![p] = c]
            /\ UNCHANGED <<resourceList, resourceLock, handler, i, leds, frame,
                           ops, pre, preFrame, mainpc>>
       ELSE StartRender(p, k, c,
                Append(RemoveAt(resourceList, r), Resource(k, c, updated)))

(* UpdateFunc, after Lock: a nil r panics at r.color; equal colors return *)
UpdateFunc(p, k, c) ==
    /\ Alive
    /\ pc[p] = "body" /\ handler[p] = "UpdateFunc"
    /\ LET r == getResource(resourceList, k) IN
       IF keyFuncPanics(k) \/ r = -1
       THEN Panic(p, k)
       ELSE IF c = resourceList[r + 1].color
       THEN /\ pc' = [pc EXCEPT ![p] = "ret"]
            /\ key' = [key EXCEPT ![p] = k]
            /\ color' = [color EXCEPT ![p] = c]
            /\ UNCHANGED <<resourceList, resourceLock, handler, i, leds, frame,
                           ops, pre, preFrame, mainpc>>
       ELSE StartRender(p, k, c,
                [resourceList EXCEPT ![r + 1].color = c,
                                     ![r + 1].state = updated])

(* Mutant: a nil r is skipped and the handler returns *)
DeleteFuncSkipsNil(p, k) ==
    /\ Alive
    /\ pc[p] = "body" /\ handler[p] = "DeleteFunc"
    /\ LET r == getResource(resourceList, k) IN
       IF keyFuncPanics(k)
       THEN Panic(p, k)
       ELSE IF r = -1
       THEN /\ pc' = [pc EXCEPT ![p] = "ret"]
            /\ key' = [key EXCEPT ![p] = k]
            /\ UNCHANGED <<resourceList, resourceLock, handler, color, i, leds,
                           frame, ops, pre, preFrame, mainpc>>
       ELSE StartRender(p, k, color[p],
                [resourceList EXCEPT ![r + 1].state = deleted])

(* DeleteFunc, after Lock: a nil r panics at r.key *)
DeleteFunc(p, k) ==
    /\ Alive
    /\ pc[p] = "body" /\ handler[p] = "DeleteFunc"
    /\ LET r == getResource(resourceList, k) IN
       IF keyFuncPanics(k) \/ r = -1
       THEN Panic(p, k)
       ELSE StartRender(p, k, color[p],
                [resourceList EXCEPT ![r + 1].state = deleted])

----------------------------------------------------------------------------
(* updateBlinkt *)

(* Mutant: the guard written "i <= 8" *)
InRangeInclusive(n) == n <= NumLeds

(* the guard "i < 8" of every display call of the walk *)
InRange(n) == n < NumLeds

(* Mutant: the state is reset only for a record that is in range *)
WalkDirtyResetsInRange(p, r) ==
    /\ leds' = IF InRange(i[p]) THEN Set(leds, i[p], r.color, brightness) ELSE leds
    /\ IF InRange(i[p])
       THEN \E l \in FlashResidue(leds, i[p], r.color) : frame' \in FlashShows(frame, l)
       ELSE frame' = frame
    /\ ops' = IF InRange(i[p])
              THEN ops \o << Op("Flash", i[p], r.color, brightness, p),
                             Op("Set", i[p], r.color, brightness, p) >>
              ELSE ops
    /\ resourceList' = IF InRange(i[p])
                       THEN [resourceList EXCEPT ![i[p] + 1].state = unchanged]
                       ELSE resourceList
    /\ i' = [i EXCEPT ![p] = i[p] + 1]

(* Mutant: the pixel is set first and flashed afterwards *)
WalkDirtySetThenFlash(p, r) ==
    /\ IF InRange(i[p])
       THEN /\ leds' \in FlashResidue(Set(leds, i[p], r.color, brightness),
                                      i[p], r.color)
            /\ frame' \in FlashShows(frame, leds')
       ELSE UNCHANGED <<leds, frame>>
    /\ ops' = IF InRange(i[p])
              THEN ops \o << Op("Set", i[p], r.color, brightness, p),
                             Op("Flash", i[p], r.color, brightness, p) >>
              ELSE ops
    /\ resourceList' = [resourceList EXCEPT ![i[p] + 1].state = unchanged]
    /\ i' = [i EXCEPT ![p] = i[p] + 1]

(* Mutant: the walk flashes and sets but leaves the record's state as is *)
WalkDirtyKeepsState(p, r) ==
    /\ leds' = IF InRange(i[p]) THEN Set(leds, i[p], r.color, brightness) ELSE leds
    /\ IF InRange(i[p])
       THEN \E l \in FlashResidue(leds, i[p], r.color) : frame' \in FlashShows(frame, l)
       ELSE frame' = frame
    /\ ops' = IF InRange(i[p])
              THEN ops \o << Op("Flash", i[p], r.color, brightness, p),
                             Op("Set", i[p], r.color, brightness, p) >>
              ELSE ops
    /\ resourceList' = resourceList
    /\ i' = [i EXCEPT ![p] = i[p] + 1]

(* case added, updated: Flash and Set when in range, then state = unchanged *)
WalkDirty(p, r) ==
    /\ leds' = IF InRange(i[p]) THEN Set(leds, i[p], r.color, brightness) ELSE leds
    /\ IF InRange(i[p])
       THEN \E l \in FlashResidue(leds, i[p], r.color) : frame' \in FlashShows(frame, l)
       ELSE frame' = frame
    /\ ops' = IF InRange(i[p])
              THEN ops \o << Op("Flash", i[p], r.color, brightness, p),
                             Op("Set", i[p], r.color, brightness, p) >>
              ELSE ops
    /\ resourceList' = [resourceList EXCEPT ![i[p] + 1].state = unchanged]
    /\ i' = [i EXCEPT ![p] = i[p] + 1]

(* Mutant: no i-- after the cut, so the loop's i++ steps over a record *)
WalkDeletedAdvances(p, r) ==
    /\ IF InRange(i[p])
       THEN /\ leds' \in FlashResidue(leds, i[p], r.color)
            /\ frame' \in FlashShows(frame, leds')
            /\ ops' = Append(ops, Op("Flash", i[p], r.color, brightness, p))
       ELSE UNCHANGED <<leds, frame, ops>>
    /\ resourceList' = RemoveAt(resourceList, i[p])
    /\ i' = [i EXCEPT ![p] = i[p] + 1]

(* case deleted: Flash when in range, cut the record out, i-- (then i++) *)
WalkDeleted(p, r) ==
    /\ IF InRange(i[p])
       THEN /\ leds' \in FlashResidue(leds, i[p], r.color)
            /\ frame' \in FlashShows(frame, leds')
            /\ ops' = Append(ops, Op("Flash", i[p], r.color, brightness, p))
       ELSE UNCHANGED <<leds, frame, ops>>
    /\ resourceList' = RemoveAt(resourceList, i[p])
    /\ i' = i

(* Mutant: case unchanged falls into the flashing branch *)
WalkSteadyFlashes(p, r) ==
    /\ leds' = IF InRange(i[p]) THEN Set(leds, i[p], r.color, brightness) ELSE leds
    /\ IF InRange(i[p])
       THEN \E l \in FlashResidue(leds, i[p], r.color) : frame' \in FlashShows(frame, l)
       ELSE frame' = frame
    /\ ops' = IF InRange(i[p])
              THEN ops \o << Op("Flash", i[p], r.color, brightness, p),
                             Op("Set", i[p], r.color, brightness, p) >>
              ELSE ops
    /\ i' = [i EXCEPT ![p] = i[p] + 1]
    /\ UNCHANGED resourceList

(* case unchanged: Set when in range *)
WalkSteady(p, r) ==
    /\ leds' = IF InRange(i[p]) THEN Set(leds, i[p], r.color, brightness) ELSE leds
    /\ ops' = IF InRange(i[p])
              THEN Append(ops, Op("Set", i[p], r.color, brightness, p))
              ELSE ops
    /\ i' = [i EXCEPT ![p] = i[p] + 1]
    /\ UNCHANGED <<resourceList, frame>>

(* One iteration of "for ; i < len(o.resourceList); i++" *)
Walk(p) ==
    /\ Alive
    /\ pc[p] = "walk"
    /\ i[p] < Len(resourceList)
    /\ LET r == resourceList[i[p] + 1] IN
       CASE r.state \in {added, updated} -> WalkDirty(p, r)
         [] r.state = deleted -> WalkDeleted(p, r)
         [] r.state = unchanged -> WalkSteady(p, r)
    /\ UNCHANGED <<resourceLock, pc, handler, key, color, pre, preFrame, mainpc>>

(* Mutant: Show is also called between the two loops *)
WalkEndShows(p) ==
    /\ Alive
    /\ pc[p] = "walk"
    /\ ~(i[p] < Len(resourceList))
    /\ pc' = [pc EXCEPT ![p] = "clear"]
    /\ frame' = leds
    /\ ops' = Append(ops, Op("Show", -1, Off, 0, p))
    /\ UNCHANGED <<resourceList, resourceLock, handler, key, color, i, leds,
                   pre, preFrame, mainpc>>

(* The walk's loop test fails: on to the second loop *)
WalkEnd(p) ==
    /\ Alive
    /\ pc[p] = "walk"
    /\ ~(i[p] < Len(resourceList))
    /\ pc' = [pc EXCEPT ![p] = "clear"]
    /\ UNCHANGED <<resourceList, resourceLock, handler, key, color, i, leds,
                   frame, ops, pre, preFrame, mainpc>>

(* Mutant: the second loop counts but does not turn the pixel off *)
ClearSkipsSet(p) ==
    /\ Alive
    /\ pc[p] = "clear"
    /\ i[p] < NumLeds
    /\ i' = [i EXCEPT ![p] = i[p] + 1]
    /\ UNCHANGED <<resourceList, resourceLock, pc, handler, key, color, leds,
                   frame, ops, pre, preFrame, mainpc>>

(* One iteration of "for ; i < 8; i++": Set(i, Off, 0) *)
Clear(p) ==
    /\ Alive
    /\ pc[p] = "clear"
    /\ i[p] < NumLeds
    /\ leds' = Set(leds, i[p], Off, 0)
    /\ ops' = Append(ops, Op("Set", i[p], Off, 0, p))
    /\ i' = [i EXCEPT ![p] = i[p] + 1]
    /\ UNCHANGED <<resourceList, resourceLock, pc, handler, key, color, frame,
                   pre, preFrame, mainpc>>

(* o.blinkt.Show(): the buffer becomes the frame; updateBlinkt returns *)
Show(p) ==
    /\ Alive
    /\ pc[p] = "clear"
    /\ ~(i[p] < NumLeds)
    /\ frame' = leds
    /\ ops' = Append(ops, Op("Show", -1, Off, 0, p))
    /\ pc' = [pc EXCEPT ![p] = "ret"]
    /\ UNCHANGED <<resourceList, resourceLock, handler, key, color, i, leds,
                   pre, preFrame, mainpc>>

(* The handler returns: the deferred Unlock runs *)
Unlock(p) ==
    /\ Alive
    /\ pc[p] = "ret"
    /\ resourceLock' = IF resourceLock = p THEN NoProc ELSE resourceLock
    /\ pc' = [pc EXCEPT ![p] = "idle"]
    /\ handler' = [handler EXCEPT ![p] = "none"]
    /\ key' = [key EXCEPT ![p] = NoKey]
    /\ color' = [color EXCEPT ![p] = Off]
    /\ i' = [i EXCEPT ![p] = 0]
    /\ ops' = << >>
    /\ pre' = << >>
    /\ preFrame' = AllOff
    /\ UNCHANGED <<resourceList, leds, frame, mainpc>>

(* Mutant: Unlock is not deferred, so a panic leaves the lock held *)
PanicKeepsLock(p) ==
    /\ pc[p] = "panic"
    /\ pc' = [pc EXCEPT ![p] = "crashed"]
    /\ UNCHANGED <<resourceList, resourceLock, handler, key, color, i, leds,
                   frame, ops, pre, preFrame, mainpc>>

(* The handler panics: the deferred Unlock runs and the process dies *)
PanicUnlock(p) ==
    /\ pc[p] = "panic"
    /\ resourceLock' = IF resourceLock = p THEN NoProc ELSE resourceLock
    /\ pc' = [pc EXCEPT ![p] = "crashed"]
    /\ UNCHANGED <<resourceList, handler, key, color, i, leds, frame, ops,
                   pre, preFrame, mainpc>>

----------------------------------------------------------------------------
(* Watch's signal goroutine, the return of controller.Run, and Cleanup *)

(* <-sigs; close(stopCh) *)
Signal ==
    /\ Alive
    /\ mainpc = "watching"
    /\ mainpc' = "stopping"
    /\ UNCHANGED <<resourceList, resourceLock, pc, handler, key, color, i,
                   leds, frame, ops, pre, preFrame>>

(* controller.Run(stopCh) returns once no handler is running; Watch returns *)
WatchReturns ==
    /\ Alive
    /\ mainpc = "stopping"
    /\ \A q \in Procs : pc[q] = "idle"
    /\ mainpc' = "returned"
    /\ UNCHANGED <<resourceList, resourceLock, pc, handler, key, color, i,
                   leds, frame, ops, pre, preFrame>>

(* The caller of Watch calls Cleanup once Watch has returned *)
AfterWatch == mainpc = "returned"

(* Mutant: Cleanup with the color NewController starts the display with *)
CleanupBlue ==
    /\ Alive
    /\ AfterWatch
    /\ ops' = Append(ops, Op("Cleanup", -1, Blue, brightness, Main))
    /\ mainpc' = "exited"
    /\ UNCHANGED <<resourceList, resourceLock, pc, handler, key, color, i,
                   leds, frame, pre, preFrame>>

(* Cleanup: o.blinkt.Cleanup(blinkt.Red, o.brightness), no Lock taken *)
Cleanup ==
    /\ Alive
    /\ AfterWatch
    /\ ops' = Append(ops, Op("Cleanup", -1, Red, brightness, Main))
    /\ mainpc' = "exited"
    /\ UNCHANGED <<resourceList, resourceLock, pc, handler, key, color, i,
                   leds, frame, pre, preFrame>>

----------------------------------------------------------------------------
(* Specifications *)

Handle(p, KS) ==
    \/ \E k \in KS \cup {NoKey}, c \in Colors : AddFunc(p, k, c)
    \/ \E k \in KS \cup {NoKey}, c \in Colors : UpdateFunc(p, k, c)
    \/ \E k \in KS \cup {NoKey} : DeleteFunc(p, k)

Step(p) ==
    \/ Lock(p)
    \/ Walk(p)
    \/ WalkEnd(p)
    \/ Clear(p)
    \/ Show(p)
    \/ Unlock(p)
    \/ PanicUnlock(p)

Shutdown == Signal \/ WatchReturns \/ Cleanup

(* From construction: events over Keys, the list bounded by MaxLen *)
Next ==
    \/ \E p \in Procs, h \in Handlers : Deliver(p, h, MaxLen)
    \/ \E p \in Procs : Handle(p, Keys)
    \/ \E p \in Procs : Step(p)
    \/ Shutdown

Spec == Init /\ [][Next]_vars

(* The same program with the scheduler's guarantee: a handler goroutine *)
(* that can take a step is not left waiting forever                     *)
SpecLive ==
    /\ Spec
    /\ \A p \in Procs : WF_vars(Handle(p, Keys) \/ Step(p))

(* At the display's capacity: the controller after seven adds, events over *)
(* CapKeys, the list bounded by CapLen                                     *)
InitCap ==
    /\ resourceList = Base
    /\ leds = FrameOf(Base)
    /\ frame = FrameOf(Base)
    /\ Idle

NextCap ==
    \/ \E p \in Procs, h \in Handlers : Deliver(p, h, CapLen)
    \/ \E p \in Procs : Handle(p, CapKeys)
    \/ \E p \in Procs : Step(p)
    \/ Shutdown

SpecCap == InitCap /\ [][NextCap]_vars

----------------------------------------------------------------------------
(* updateBlinkt on its own: called, and called again, on a steady list *)

SteadyRecords(KS) == {Resource(k, c, unchanged) : k \in KS, c \in Colors}

SeqsUpTo(S, n) == UNION {[1 .. m -> S] : m \in 0 .. n}

SteadyLists ==
    SeqsUpTo(SteadyRecords(Keys), MaxLen)
        \cup {Base \o t : t \in SeqsUpTo(SteadyRecords(CapKeys), CapLen - Len(Base))}

InitIdem ==
    /\ resourceList \in SteadyLists
    /\ leds = FrameOf(resourceList)
    /\ frame = FrameOf(resourceList)
    /\ Idle

(* o.updateBlinkt() entered under the lock, with nothing marked *)
updateBlinkt(p) ==
    /\ Alive
    /\ pc[p] = "idle"
    /\ resourceLock = NoProc
    /\ resourceLock' = p
    /\ handler' = [handler EXCEPT ![p] = "updateBlinkt"]
    /\ pc' = [pc EXCEPT ![p] = "walk"]
    /\ i' = [i EXCEPT ![p] = 0]
    /\ ops' = << >>
    /\ pre' = resourceList
    /\ preFrame' = frame
    /\ UNCHANGED <<resourceList, key, color, leds, frame, mainpc>>

(* o.updateBlinkt() entered again when the first pass has returned *)
updateBlinktAgain(p) ==
    /\ Alive
    /\ pc[p] = "ret"
    /\ handler[p] = "updateBlinkt"
    /\ handler' = [handler EXCEPT ![p] = "updateBlinkt again"]
    /\ pc' = [pc EXCEPT ![p] = "walk"]
    /\ i' = [i EXCEPT ![p] = 0]
    /\ ops' = << >>
    /\ pre' = resourceList
    /\ preFrame' = frame
    /\ UNCHANGED <<resourceList, resourceLock, key, color, leds, frame, mainpc>>

NextIdem ==
    \/ \E p \in Procs : updateBlinkt(p)
    \/ \E p \in Procs : updateBlinktAgain(p)
    \/ \E p \in Procs : Walk(p) \/ WalkEnd(p) \/ Clear(p) \/ Show(p) \/ Unlock(p)

SpecIdem == InitIdem /\ [][NextIdem]_vars

----------------------------------------------------------------------------
(* Properties *)

(* p has finished a render pass: Show was its last display call *)
Committed(p) ==
    /\ pc[p] = "ret"
    /\ ops # << >>
    /\ ops[Len(ops)].op = "Show"

HasKey(list, k) == \E n \in 1 .. Len(list) : list[n].key = k

(* C1: the tracked collection never holds two records with the same key, *)
(* whatever add, update and delete events arrive, an add redelivered for *)
(* a tracked key included.                                               *)
C1_KeysUnique ==
    \A m, n \in 1 .. Len(resourceList) :
        m # n => resourceList[m].key # resourceList[n].key

(* C2: when a render pass commits, every slot n of 0..7 below the length *)
(* of the list shows the color of the record at position n at the        *)
(* configured brightness, and every other slot is off with brightness 0; *)
(* an empty list gives eight dark slots.                                 *)
C2_FrameAtShow ==
    \A p \in Procs :
        Committed(p) =>
            \A n \in Leds :
                frame[n] = IF n < Len(resourceList)
                           THEN Pixel(resourceList[n + 1].color, brightness)
                           ELSE Pixel(Off, 0)

(* C2 witness: a pass has committed the frame of a list that became empty *)
C2_Witness ==
    \E p \in Procs :
        /\ Committed(p)
        /\ resourceList = << >>
        /\ preFrame[0] # Pixel(Off, 0)
        /\ frame = AllOff

(* C3: after a delete event and its render pass no record with that key  *)
(* is left, the records before it kept their positions and the records   *)
(* after it each moved one position earlier; add and update events leave *)
(* every existing record at its position.                                *)
C3_RemovalCompacts ==
    \A p \in Procs :
        /\ (Committed(p) /\ handler[p] = "DeleteFunc") =>
               LET r == getResource(pre, key[p]) IN
               /\ ~HasKey(resourceList, key[p])
               /\ Len(resourceList) = Len(pre) - 1
               /\ \A m \in 1 .. Len(pre) :
                      /\ m < r + 1 => resourceList[m] = pre[m]
                      /\ m > r + 1 => resourceList[m - 1] = pre[m]
        /\ (Committed(p) /\ handler[p] \in {"AddFunc", "UpdateFunc"}) =>
               /\ Len(resourceList) >= Len(pre)
               /\ \A m \in 1 .. Len(pre) : resourceList[m].key = pre[m].key

(* p runs the named handler and is past its body, in or after the render *)
Rendering(p, h) == handler[p] = h /\ pc[p] \in {"walk", "clear", "ret"}

NoFlash == \A n \in 1 .. Len(ops) : ops[n].op # "Flash"

(* C4: an add to a list of eight or more records appends the record,     *)
(* issues no Flash and leaves the frame of slots 0..7 as it was, before  *)
(* and after the commit; and a record beyond slot 7 in any step stays at *)
(* its position, is itself cut out, or moves one position earlier        *)
(* because an earlier record is cut out.                                 *)
C4_AddAtCapacityState ==
    \A p \in Procs :
        (Rendering(p, "AddFunc") /\ Len(pre) >= NumLeds) =>
            /\ NoFlash
            /\ frame = preFrame
            /\ Len(resourceList) = Len(pre) + 1
            /\ resourceList[Len(resourceList)].key = key[p]
            /\ resourceList[Len(resourceList)].color = color[p]
            /\ \A m \in 1 .. Len(pre) : resourceList[m] = pre[m]

C4_TailMovesOnlyByRemoval ==
    \A m \in (NumLeds + 1) .. Len(resourceList) :
        \/ /\ Len(resourceList') >= m
           /\ resourceList'[m].key = resourceList[m].key
        \/ \E r \in 0 .. (m - 1) : resourceList' = RemoveAt(resourceList, r)

C4_AddAtCapacity ==
    /\ [] C4_AddAtCapacityState
    /\ [][C4_TailMovesOnlyByRemoval]_vars

(* C4 witness: a ninth record was added and its render pass has committed *)
C4_Witness ==
    \E p \in Procs :
        /\ Committed(p)
        /\ handler[p] = "AddFunc"
        /\ Len(pre) = NumLeds
        /\ Len(resourceList) = NumLeds + 1

(* C5: whenever the lock is free every record of the list, at any        *)
(* position, has state unchanged (steady); none is added, updated or     *)
(* deleted.                                                              *)
C5_SteadyWhenUnlocked ==
    resourceLock = NoProc =>
        \A n \in 1 .. Len(resourceList) : resourceList[n].state = unchanged

(* C5 witness: handlers have completed and left records beyond slot 7 *)
C5_Witness ==
    /\ resourceLock = NoProc
    /\ \A p \in Procs : pc[p] = "idle"
    /\ Len(resourceList) > NumLeds
    /\ resourceList[NumLeds + 1].key = "x"

(* C6: an update whose color equals the stored color of the record it    *)
(* finds changes nothing: the list is as it was, no Flash, Set or Show   *)
(* is issued, buffer and frame are untouched and the record's slot still *)
(* shows that color.                                                     *)
C6_SameColorUpdateIsNoOp ==
    \A p \in Procs :
        LET r == getResource(pre, key[p]) IN
        (/\ handler[p] = "UpdateFunc"
         /\ pc[p] \in {"walk", "clear", "ret"}
         /\ r # -1
         /\ pre[r + 1].color = color[p]) =>
            /\ pc[p] = "ret"
            /\ resourceList = pre
            /\ ops = << >>
            /\ leds = preFrame
            /\ frame = preFrame
            /\ pre[r + 1].state = unchanged
            /\ InRange(r) => frame[r] = Pixel(color[p], brightness)

(* C6 witness: an update with the stored color has returned *)
C6_Witness ==
    \E p \in Procs :
        /\ handler[p] = "UpdateFunc"
        /\ pc[p] = "ret"
        /\ HasKey(pre, key[p])
        /\ pre[getResource(pre, key[p]) + 1].color = color[p]

(* C7: an update or delete event whose key is not in the list panics;    *)
(* the handler never returns normally, and at the panic the list, the    *)
(* buffer and the frame are as they were and no display call was issued. *)
C7_LookupMissIsFatal ==
    \A p \in Procs :
        (/\ handler[p] \in {"UpdateFunc", "DeleteFunc"}
         /\ pc[p] \in {"walk", "clear", "ret", "panic", "crashed"}
         /\ ~HasKey(pre, key[p])) =>
            /\ pc[p] \in {"panic", "crashed"}
            /\ resourceList = pre
            /\ ops = << >>
            /\ leds = preFrame
            /\ frame = preFrame

(* C7 witness: a delete for an untracked key has panicked, list not empty *)
C7_Witness ==
    \E p \in Procs :
        /\ handler[p] = "DeleteFunc"
        /\ pc[p] = "panic"
        /\ key[p] # NoKey
        /\ resourceList # << >>

(* p is between its Lock and its deferred Unlock *)
InCycle(p) == pc[p] \in {"body", "walk", "clear", "ret", "panic"}

(* C8: at most one handler is inside its handle-then-render cycle, and   *)
(* it holds the lock; every step that changes the list, the buffer or    *)
(* the frame is taken while one handler is in its cycle and moves no     *)
(* other handler, none of which is in a cycle of its own.                *)
C8_OneHandlerInCycle ==
    \A p, q \in Procs :
        /\ InCycle(p) => resourceLock = p
        /\ (InCycle(p) /\ InCycle(q)) => p = q

C8_ChangesByHolderOnly ==
    (resourceList' # resourceList \/ leds' # leds \/ frame' # frame) =>
        \E p \in Procs :
            /\ resourceLock = p
            /\ InCycle(p)
            /\ \A q \in Procs \ {p} : ~InCycle(q) /\ pc'[q] = pc[q]

C8_HandlersExclusive ==
    /\ [] C8_OneHandlerInCycle
    /\ [][C8_ChangesByHolderOnly]_vars

(* C8 witness: one handler is in its render pass while the other, of a   *)
(* different kind, has been entered and waits at Lock                    *)
C8_Witness ==
    \E p, q \in Procs :
        /\ pc[p] = "walk" /\ handler[p] = "AddFunc" /\ i[p] = 1
        /\ pc[q] = "lock" /\ handler[q] = "DeleteFunc"

(* C9: every display call (Set, Flash, Show and Cleanup) is issued by a  *)
(* caller that holds the lock.                                           *)
C9_DisplayCallsUnderLock ==
    \A n \in 1 .. Len(ops) : ops[n].locked

(* C10: a render pass calls Show exactly once, as its last display call: *)
(* before it no Show is issued and every slot shows what the pass found, *)
(* but for the pulse of a slot the pass has flashed; at the return every *)
(* call before the Show is a Flash or a Set, every slot 0..7 has been    *)
(* Set in the pass and the frame is the buffer.                          *)
C10_SingleCommit ==
    \A p \in Procs :
        /\ pc[p] \in {"walk", "clear"} =>
               /\ \A n \in 1 .. Len(ops) : ops[n].op \in {"Flash", "Set"}
               /\ \A l \in Leds :
                      frame[l] # preFrame[l] =>
                          \E n \in 1 .. Len(ops) :
                              ops[n].op = "Flash" /\ ops[n].led = l
        /\ (pc[p] = "ret" /\ ops # << >>) =>
               /\ ops[Len(ops)].op = "Show"
               /\ \A n \in 1 .. (Len(ops) - 1) : ops[n].op \in {"Flash", "Set"}
               /\ \A l \in Leds :
                      \E n \in 1 .. (Len(ops) - 1) :
                          ops[n].op = "Set" /\ ops[n].led = l
               /\ frame = leds

(* C10 witness: a committed pass that flashed, set and cleared slots and *)
(* changed the frame                                                     *)
C10_Witness ==
    \E p \in Procs :
        /\ Committed(p)
        /\ \E n \in 1 .. Len(ops) : ops[n].op = "Flash"
        /\ \E n \in 1 .. Len(ops) : ops[n].op = "Set" /\ ops[n].color = Off
        /\ frame # preFrame

(* C11: after a termination signal no further event is delivered, the    *)
(* watch returns once no handler runs, and Cleanup is then invoked once, *)
(* with red at the configured brightness, whatever the list holds;       *)
(* nothing runs after it.                                                *)
C11_CleanupState ==
    /\ mainpc = "exited" =>
           /\ Len(ops) = 1
           /\ ops[1].op = "Cleanup"
           /\ ops[1].color = Red
           /\ ops[1].brightness = brightness
    /\ mainpc # "exited" => \A n \in 1 .. Len(ops) : ops[n].op # "Cleanup"
    /\ mainpc \in {"returned", "exited"} => \A p \in Procs : pc[p] = "idle"

C11_StoppedStep ==
    /\ mainpc # "watching" => \A p \in Procs : pc[p] = "idle" => pc'[p] = "idle"
    /\ mainpc = "exited" => UNCHANGED vars
    /\ mainpc' = "exited" => UNCHANGED <<resourceList, leds, frame>>

C11_CleanupOnce ==
    /\ [] C11_CleanupState
    /\ [][C11_StoppedStep]_vars

(* C11 witness: the process has exited through Cleanup with records tracked *)
C11_Witness ==
    /\ mainpc = "exited"
    /\ Len(resourceList) = 2
    /\ Len(ops) = 1

(* The display calls a pass is expected to log, issued under the lock *)
FlashOp(n, c) ==
    [op |-> "Flash", led |-> n, color |-> c, brightness |-> brightness,
     times |-> 2, locked |-> TRUE]

SetOp(n, c, b) ==
    [op |-> "Set", led |-> n, color |-> c, brightness |-> b,
     times |-> 0, locked |-> TRUE]

ShowOp ==
    [op |-> "Show", led |-> -1, color |-> Off, brightness |-> 0,
     times |-> 0, locked |-> TRUE]

(* Set(n, Off, 0) for n = from .. 7 *)
ClearOps(from) == [n \in 1 .. (NumLeds - from) |-> SetOp(from + n - 1, Off, 0)]

(* The index (from 0) of the record the handler of p touched *)
Touched(p) ==
    IF handler[p] = "AddFunc" THEN Len(pre) ELSE getResource(pre, key[p])

(* C12: for an added or updated record at an index t below 8 the pass    *)
(* issues Flash(t, color) with 2 cycles, directly followed by            *)
(* Set(t, color), and Show last.  Add a red to the empty list: flash and *)
(* set slot 0 red; then add b blue: set slot 0 red with no flash, flash  *)
(* and set slot 1 blue; then delete a: flash slot 0 red, a is cut out,   *)
(* and the committed frame has slot 0 blue and slot 1 off.               *)
C12_FlashSetShow ==
    \A p \in Procs :
        /\ (/\ Committed(p)
            /\ handler[p] \in {"AddFunc", "UpdateFunc"}
            /\ Touched(p) < NumLeds) =>
               /\ ops[Len(ops)] = ShowOp
               /\ \E n \in 1 .. (Len(ops) - 2) :
                      /\ ops[n] = FlashOp(Touched(p), color[p])
                      /\ ops[n + 1] = SetOp(Touched(p), color[p], brightness)
        /\ (/\ Committed(p) /\ handler[p] = "AddFunc"
            /\ pre = << >> /\ key[p] = "a" /\ color[p] = Red) =>
               ops = << FlashOp(0, Red), SetOp(0, Red, brightness) >>
                         \o ClearOps(1) \o << ShowOp >>
        /\ (/\ Committed(p) /\ handler[p] = "AddFunc"
            /\ pre = << Resource("a", Red, unchanged) >>
            /\ key[p] = "b" /\ color[p] = Blue) =>
               ops = << SetOp(0, Red, brightness), FlashOp(1, Blue),
                        SetOp(1, Blue, brightness) >>
                         \o ClearOps(2) \o << ShowOp >>
        /\ (/\ Committed(p) /\ handler[p] = "DeleteFunc"
            /\ pre = << Resource("a", Red, unchanged),
                        Resource("b", Blue, unchanged) >>
            /\ key[p] = "a") =>
               /\ ops = << FlashOp(0, Red), SetOp(0, Blue, brightness) >>
                           \o ClearOps(1) \o << ShowOp >>
               /\ resourceList = << Resource("b", Blue, unchanged) >>
               /\ frame[0] = Pixel(Blue, brightness)
               /\ frame[1] = Pixel(Off, 0)

(* C12 witness: a was added red, b blue, and the delete of a has committed *)
C12_Witness ==
    \E p \in Procs :
        /\ Committed(p)
        /\ handler[p] = "DeleteFunc"
        /\ key[p] = "a"
        /\ pre = << Resource("a", Red, unchanged), Resource("b", Blue, unchanged) >>
        /\ frame[0] = Pixel(Blue, brightness)

(* C13: a render pass on a list of steady records leaves the list as it  *)
(* is and issues no Flash, and a second pass right after it commits the  *)
(* frame the first one committed: every slot 0..7 has the same color and *)
(* brightness.                                                           *)
C13_RenderIdempotent ==
    \A p \in Procs :
        /\ (handler[p] \in {"updateBlinkt", "updateBlinkt again"}
            /\ pc[p] \in {"walk", "clear", "ret"}) =>
               /\ NoFlash
               /\ resourceList = pre
        /\ (Committed(p) /\ handler[p] = "updateBlinkt") =>
               \A n \in Leds :
                   frame[n] = IF n < Len(pre)
                              THEN Pixel(pre[n + 1].color, brightness)
                              ELSE Pixel(Off, 0)
        /\ (Committed(p) /\ handler[p] = "updateBlinkt again") =>
               \A n \in Leds : frame[n] = preFrame[n]

(* C13 witness: the second pass has committed, on a list of two records  *)
(* that leaves slots to clear                                            *)
C13_Witness ==
    \E p \in Procs :
        /\ Committed(p)
        /\ handler[p] = "updateBlinkt again"
        /\ Len(resourceList) = 2
        /\ frame[0] # Pixel(Off, 0)

(* p has run its handler's body and updateBlinkt has not walked yet *)
AtRenderStart(p) == pc[p] = "walk" /\ i[p] = 0 /\ ops = << >>

(* C14: an update with a color other than the stored one changes, when   *)
(* updateBlinkt starts, only the color and the state (to updated) of the *)
(* record it found, in place; after the pass the list is the old one     *)
(* with that record's color replaced: same length, same keys, same       *)
(* positions, every other record as it was.                              *)
C14_UpdateInPlace ==
    \A p \in Procs :
        LET r == getResource(pre, key[p]) IN
        (/\ handler[p] = "UpdateFunc"
         /\ pc[p] \in {"walk", "clear", "ret"}
         /\ r # -1
         /\ pre[r + 1].color # color[p]) =>
            /\ Len(resourceList) = Len(pre)
            /\ \A m \in 1 .. Len(pre) :
                   /\ resourceList[m].key = pre[m].key
                   /\ m # r + 1 => resourceList[m] = pre[m]
            /\ resourceList[r + 1].color = color[p]
            /\ AtRenderStart(p) => resourceList[r + 1].state = updated
            /\ pc[p] = "ret" => resourceList[r + 1].state = unchanged

(* C14 witness: the first of three records was given another color and   *)
(* the pass has committed                                                *)
C14_Witness ==
    \E p \in Procs :
        /\ Committed(p)
        /\ handler[p] = "UpdateFunc"
        /\ Len(pre) = 3
        /\ getResource(pre, key[p]) = 0
        /\ pre[1].color # color[p]
        /\ pre[2].key # key[p]

Min(a, b) == IF a < b THEN a ELSE b

(* Set(n, list[n].color, brightness) for the indices from <= n < to *)
SetsOf(list, from, to) ==
    [n \in 1 .. (to - from) |-> SetOp(from + n - 1, list[from + n].color, brightness)]

(* C15: the pass a delete event triggers sets the slots before the       *)
(* removed record's index r, flashes slot r once in the record's color   *)
(* when r is below 8 (and not at all otherwise), cuts the record out,    *)
(* then goes on at the same index: the records that moved up are set at  *)
(* r, r+1, ... with none left out, the free slots are cleared and the    *)
(* frame is shown.  The step that cuts a record out leaves i as it is.   *)
C15_DeletePass ==
    \A p \in Procs :
        (Committed(p) /\ handler[p] = "DeleteFunc") =>
            LET r == getResource(pre, key[p])
                after == RemoveAt(pre, r)
                shown == Min(Len(after), NumLeds)
            IN  /\ resourceList = after
                /\ ops = SetsOf(pre, 0, Min(r, NumLeds))
                           \o (IF r < NumLeds
                               THEN << FlashOp(r, pre[r + 1].color) >>
                               ELSE << >>)
                           \o SetsOf(after, Min(r, NumLeds), shown)
                           \o ClearOps(shown)
                           \o << ShowOp >>

C15_CutKeepsIndex ==
    \A p \in Procs :
        (pc[p] = "walk" /\ Len(resourceList') < Len(resourceList)) =>
            /\ i'[p] = i[p]
            /\ resourceList' = RemoveAt(resourceList, i[p])

C15_RemovedFlashedAndCut ==
    /\ [] C15_DeletePass
    /\ [][C15_CutKeepsIndex]_vars

(* C15 witness: the first of nine records was deleted: flashed at slot 0 *)
(* and the ninth record now sits in slot 7                               *)
C15_Witness ==
    \E p \in Procs :
        /\ Committed(p)
        /\ handler[p] = "DeleteFunc"
        /\ getResource(pre, key[p]) = 0
        /\ Len(pre) = NumLeds + 1
        /\ frame[NumLeds - 1] = Pixel(pre[NumLeds + 1].color, brightness)

(* C16: every Set and Flash addresses a slot of 0..7; a walk step on a   *)
(* steady record issues no Flash; and a walk step on a record at index 8 *)
(* or beyond, whatever its state, issues no display call and leaves      *)
(* buffer and frame alone.                                               *)
C16_SlotsInRange ==
    \A n \in 1 .. Len(ops) :
        ops[n].op \in {"Set", "Flash"} => ops[n].led \in Leds

C16_WalkStep ==
    \A p \in Procs :
        (/\ pc[p] = "walk" /\ pc'[p] = "walk"
         /\ i[p] < Len(resourceList)
         /\ (i'[p] # i[p] \/ resourceList' # resourceList)) =>
            /\ resourceList[i[p] + 1].state = unchanged =>
                   \A n \in (Len(ops) + 1) .. Len(ops') : ops'[n].op # "Flash"
            /\ i[p] >= NumLeds =>
                   /\ ops' = ops
                   /\ leds' = leds
                   /\ frame' = frame

C16_OnlyVisibleSlots ==
    /\ [] C16_SlotsInRange
    /\ [][C16_WalkStep]_vars

(* C16 witness: an add pass has walked past its new record at index 8    *)
(* having logged only the eight Sets of the slots                        *)
C16_Witness ==
    \E p \in Procs :
        /\ pc[p] = "walk"
        /\ handler[p] = "AddFunc"
        /\ i[p] = NumLeds + 1
        /\ Len(ops) = NumLeds
        /\ \A n \in 1 .. Len(ops) : ops[n].op = "Set"

(* The steps p still has to take before its lock is released, at most *)
Rank(p) ==
    CASE pc[p] = "body" -> Len(resourceList) + NumLeds + 6
      [] pc[p] = "walk" -> (Len(resourceList) - i[p]) + NumLeds + 4
      [] pc[p] = "clear" -> (IF i[p] < NumLeds THEN NumLeds - i[p] ELSE 0) + 2
      [] pc[p] \in {"ret", "panic"} -> 1
      [] OTHER -> 0

Moves(p) ==
    pc'[p] # pc[p] \/ i'[p] # i[p] \/ resourceList' # resourceList

(* C17: a handler between Lock and Unlock can always take a step, every  *)
(* step it takes lowers a rank that cannot go below 0 (a walk step       *)
(* either advances i or shortens the list), and a handler outside that   *)
(* span, whether it returned, returned early or panicked, does not hold  *)
(* the lock; a handler waiting at Lock can lock unless another is on its *)
(* way to Unlock.  So every pass ends and every lock taken is released.  *)
C17_Progress ==
    \A p \in Procs :
        /\ Rank(p) >= 0
        /\ InCycle(p) => ENABLED (Handle(p, Keys) \/ Step(p))
        /\ ~InCycle(p) => resourceLock # p
        /\ (pc[p] = "lock" /\ Alive) =>
               \/ ENABLED Lock(p)
               \/ \E q \in Procs : InCycle(q)
        /\ pc[p] = "walk" => i[p] <= Len(resourceList)

C17_RankFalls ==
    \A p \in Procs :
        /\ (InCycle(p) /\ Moves(p)) => Rank(p)' < Rank(p)
        /\ (pc[p] = "walk" /\ pc'[p] = "walk" /\ Moves(p)) =>
               \/ i'[p] = i[p] + 1 /\ Len(resourceList') = Len(resourceList)
               \/ i'[p] = i[p] /\ Len(resourceList') = Len(resourceList) - 1

C17_LockReleased ==
    \A p \in Procs : (resourceLock = p) ~> (resourceLock # p)

C17_HandlersTerminate ==
    /\ [] C17_Progress
    /\ [][C17_RankFalls]_vars
    /\ C17_LockReleased

(* C17 witness: a handler panicked in keyFunc, died, and the lock is free *)
C17_Witness ==
    \E p \in Procs :
        /\ pc[p] = "crashed"
        /\ key[p] = NoKey
        /\ resourceLock = NoProc
        /\ resourceList # << >>

(* C18: while an add is rendered the list is the list found at Lock, in  *)
(* the same order, followed by one record for the added key; a key that  *)
(* was not tracked at Lock (never seen, or removed since) is therefore   *)
(* at the last position, whatever position it held before its removal.   *)
C18_ReobservedKeyIsLast ==
    \A p \in Procs :
        Rendering(p, "AddFunc") =>
            /\ Len(resourceList) = Len(pre) + 1
            /\ resourceList[Len(resourceList)].key = key[p]
            /\ \A n \in 1 .. Len(pre) :
                   /\ resourceList[n].key = pre[n].key
                   /\ resourceList[n].color = pre[n].color
            /\ ~HasKey(pre, key[p]) =>
                   getResource(resourceList, key[p]) = Len(pre)

(* C18 witness: "f1", first of the list at the start, was removed and is *)
(* observed again: its add is committed with other records before it     *)
C18_Witness ==
    \E p \in Procs :
        /\ Committed(p)
        /\ handler[p] = "AddFunc"
        /\ key[p] = "f1"
        /\ ~HasKey(pre, "f1")
        /\ Len(pre) >= NumLeds - 2
        /\ resourceList[1].key # "f1"
        /\ getResource(resourceList, "f1") = Len(pre)

(* C19: an add or update whose record sits at index 8 or beyond is       *)
(* rendered without any Flash and leaves the record steady; when a       *)
(* removal at a visible index later shifts the record at index 8 into    *)
(* slot 7, that pass flashes only the removed record, then shows the     *)
(* shifted record by a Set of its current color, and it stays steady.    *)
C19_HiddenChange ==
    \A p \in Procs :
        (/\ Rendering(p, "AddFunc") \/ Rendering(p, "UpdateFunc")
         /\ Touched(p) >= NumLeds) =>
            /\ NoFlash
            /\ pc[p] \in {"clear", "ret"} =>
                   resourceList[Touched(p) + 1].state = unchanged

C19_ShiftedIn ==
    \A p \in Procs :
        (/\ Committed(p)
         /\ handler[p] = "DeleteFunc"
         /\ Len(pre) > NumLeds
         /\ Touched(p) < NumLeds) =>
            /\ \A n \in 1 .. Len(ops) :
                   ops[n].op = "Flash" =>
                       ops[n] = FlashOp(Touched(p), pre[Touched(p) + 1].color)
            /\ \E n \in 1 .. Len(ops) :
                   /\ ops[n] = SetOp(NumLeds - 1, pre[NumLeds + 1].color, brightness)
                   /\ \A m \in n .. Len(ops) : ops[m].op # "Flash"
            /\ resourceList[NumLeds].key = pre[NumLeds + 1].key
            /\ resourceList[NumLeds].state = unchanged
            /\ frame[NumLeds - 1] = Pixel(pre[NumLeds + 1].color, brightness)

C19_HiddenRecordNeverFlashed ==
    /\ C19_HiddenChange
    /\ C19_ShiftedIn

(* C19 witness: "x" was added at index 8; the removal of the record in   *)
(* slot 7 is committed and "x" now shows in slot 7 with another color    *)
C19_Witness ==
    \E p \in Procs :
        /\ Committed(p)
        /\ handler[p] = "DeleteFunc"
        /\ Len(pre) = NumLeds + 1
        /\ Touched(p) = NumLeds - 1
        /\ pre[NumLeds + 1].key = "x"
        /\ pre[NumLeds + 1].color # pre[NumLeds].color
        /\ frame[NumLeds - 1] = Pixel(pre[NumLeds + 1].color, brightness)

NonSteady(list) == {n \in 1 .. Len(list) : list[n].state # unchanged}

Flashes == {n \in 1 .. Len(ops) : ops[n].op = "Flash"}

(* C20: when updateBlinkt starts, the one record that is not steady is   *)
(* the record the handler touched; the display calls of one pass hold at *)
(* most one Flash; and once the walk is over the list is one longer than *)
(* at Lock for an add, one shorter for a delete, as long for an update,  *)
(* and never differs from it by more than one during the walk.           *)
C20_OneDirtyRecord ==
    /\ Cardinality(Flashes) <= 1
    /\ \A p \in Procs :
        /\ AtRenderStart(p) =>
               /\ NonSteady(resourceList) = {Touched(p) + 1}
               /\ Cardinality(NonSteady(resourceList)) = 1
        /\ pc[p] = "walk" =>
               /\ Len(resourceList) - Len(pre) \in {-1, 0, 1}
               /\ Cardinality(NonSteady(resourceList)) <= 1
        /\ pc[p] \in {"clear", "ret"} =>
               /\ NonSteady(resourceList) = {}
               /\ Rendering(p, "AddFunc") => Len(resourceList) = Len(pre) + 1
               /\ Rendering(p, "DeleteFunc") => Len(resourceList) = Len(pre) - 1
               /\ handler[p] = "UpdateFunc" => Len(resourceList) = Len(pre)

(* C20 witness: the delete of the second of three records is committed   *)
(* with exactly one Flash, and two records are left                      *)
C20_Witness ==
    \E p \in Procs :
        /\ Committed(p)
        /\ handler[p] = "DeleteFunc"
        /\ Touched(p) = 1
        /\ Len(pre) = MaxLen
        /\ Len(resourceList) = MaxLen - 1
        /\ Cardinality(Flashes) = 1

====
